---- MODULE Spec2Model ----
(***************************************************************************)
(* Model of ChristmasCountdownPlugin (src/manager.py): the countdown state *)
(* kept by update(), the text-layout resolver _calculate_text_layout and   *)
(* the render pass display().                                              *)
(*                                                                         *)
(* The display manager is the environment.  Each of its operations that    *)
(* the plugin calls (get_font_height, get_text_width, clear, paste,        *)
(* draw_text, update_display) either returns or raises, independently on   *)
(* every call.  A handler is one action; the results of the calls it makes *)
(* are drawn inside the action, and what the calls returned is kept in the *)
(* variable meas so that properties can refer to it.                       *)
(***************************************************************************)
EXTENDS Integers, Sequences, FiniteSets, TLC

VARIABLES
    today,                  \* date.today(), a record [year, month, day]
    days_until_christmas,   \* self.days_until_christmas
    is_christmas,           \* self.is_christmas
    last_calculated_date,   \* self.last_calculated_date, <<>> is None
    last_displayed_message, \* self.last_displayed_message, <<>> is None
    dm,                     \* the display manager: width, height, font attributes
    args,                   \* arguments of the _calculate_text_layout call
    ret,                    \* what the last _calculate_text_layout call returned
    meas,                   \* what the measurement calls of that call returned
    op,                     \* the handler that ran last
    shown                   \* what the last display() call did on the display

plugin == <<days_until_christmas, is_christmas, last_calculated_date,
            last_displayed_message>>

vars == <<today, days_until_christmas, is_christmas, last_calculated_date,
          last_displayed_message, dm, args, ret, meas, op, shown>>

(***************************************************************************)
(* Bounds of the model.                                                    *)
(***************************************************************************)
MaxLines == 3                     \* longest line list made of LineWords
MaxTicks == 2                     \* days that pass after construction

Widths == {32, 64}                \* display widths
Heights == {3, 9, 14, 32}         \* display heights
LineWords == {"1", "DAYS"}        \* lines of the line lists
FontHeights == {1, 6}             \* heights get_font_height returns
FontSizes == {7}                  \* values of a font's size attribute
TextWidths == {10, 30}            \* widths get_text_width returns

Max(a, b) == IF a >= b THEN a ELSE b

RECURSIVE SeqsUpTo(_, _)
SeqsUpTo(S, n) ==
    IF n = 0 THEN {<<>>}
    ELSE LET shorter == SeqsUpTo(S, n - 1)
         IN  shorter \cup {Append(s, x) : s \in {t \in shorter : Len(t) = n - 1}, x \in S}

(***************************************************************************)
(* The display manager's measurement operations.  A result is the value    *)
(* returned, or a raised exception (ok = FALSE).                           *)
(***************************************************************************)
Raised == [ok |-> FALSE, v |-> 0]
Returned(v) == [ok |-> TRUE, v |-> v]

get_font_height == {Raised} \cup {Returned(h) : h \in FontHeights}
get_text_width == {Raised} \cup {Returned(w) : w \in TextWidths}

\* A font object: its size attribute, <<>> when it has none.
FontAttrs == {<<>>} \cup {<<s>> : s \in FontSizes}
FontNames == {"regular_font", "small_font", "extra_small_font"}

font_options ==
    << [font |-> "regular_font", use_small |-> FALSE],
       [font |-> "small_font", use_small |-> TRUE],
       [font |-> "extra_small_font", use_small |-> TRUE] >>

(***************************************************************************)
(* _calculate_text_layout                                                  *)
(***************************************************************************)
available_text_width(width) == (width - (width \div 2)) - 4

available_text_height(height) == height - 4

\* line height of a candidate in the search loop
loop_line_height(h, size, use_small) ==
    IF h.ok THEN h.v + 2
    ELSE IF size # <<>> THEN size[1] + 2
    ELSE IF use_small THEN 8 ELSE 10

\* line height of the smallest font, computed again on the fallback path
fallback_line_height(h, size) ==
    IF h.ok THEN h.v + 2
    ELSE IF size # <<>> THEN size[1] + 2
    ELSE 8

\* mutant: the estimate of the regular font used for every font
estimated_width_regular(line, use_small) == Len(line) * 8

estimated_width(line, use_small) == Len(line) * (IF use_small THEN 6 ELSE 8)

\* the width test of one line (measured or estimated width)
too_wide(line_width, avail) == line_width > avail

\* mutant: the height test against the display height, margins forgotten
too_tall_no_margin(total_height, avail) == total_height > avail + 4

\* the height test of a candidate
too_tall(total_height, avail) == total_height > avail

(* One pass of "for line in lines" for one get_text_width result r.  acc    *)
(* holds the locals all_lines_fit and max_line_width, and for the record    *)
(* over (some width seen exceeded the available width) and wok (some       *)
(* get_text_width call returned).                                          *)
measure_line(acc, line, r, use_small, avail) ==
    IF r.ok
    THEN [all_lines_fit |-> ~too_wide(r.v, avail),
          max_line_width |-> Max(acc.max_line_width, r.v),
          over |-> acc.over \/ r.v > avail,
          wok |-> TRUE]
    ELSE LET estimated == estimated_width(line, use_small)
         IN  [all_lines_fit |-> ~too_wide(estimated, avail),
              max_line_width |-> IF too_wide(estimated, avail)
                                 THEN acc.max_line_width
                                 ELSE Max(acc.max_line_width, estimated),
              over |-> acc.over \/ estimated > avail,
              wok |-> acc.wok]

(* The loop over the lines from line j on: the set of the states it can end *)
(* in.  A line is measured only while all_lines_fit holds (break).          *)
RECURSIVE measure_lines(_, _, _, _, _)
measure_lines(accs, lines, j, use_small, avail) ==
    IF j > Len(lines) THEN accs
    ELSE measure_lines(
            UNION {IF acc.all_lines_fit
                   THEN {measure_line(acc, lines[j], r, use_small, avail) :
                            r \in get_text_width}
                   ELSE {acc} : acc \in accs},
            lines, j + 1, use_small, avail)

\* the locals of _calculate_text_layout before the search loop
NoFont == "None"
layout_locals ==
    [best_font |-> NoFont, best_line_height |-> 8, best_total_height |-> 0,
     best_use_small |-> FALSE,
     obs |-> <<>>, fb |-> <<>>, wok |-> FALSE]

\* a candidate that passed both tests is taken
select_font(st, opt, line_height, total_height, seen) ==
    [st EXCEPT !.best_font = opt.font, !.best_line_height = line_height,
               !.best_total_height = total_height,
               !.best_use_small = opt.use_small,
               !.obs = Append(st.obs, seen.o), !.wok = seen.wok]

\* a candidate that failed a test is passed over (continue)
reject_font(st, seen) ==
    [st EXCEPT !.obs = Append(st.obs, seen.o), !.wok = seen.wok]

(* One pass of "for font, use_small in font_options" for candidate i: the   *)
(* set of the states it can end in.  obs records, per candidate tried, the  *)
(* get_font_height result h and whether a width seen was over.              *)
try_font(st, i, fonts, width, height, lines) ==
    LET opt == font_options[i]
        availW == available_text_width(width)
        availH == available_text_height(height)
        start == [all_lines_fit |-> TRUE, max_line_width |-> 0, over |-> FALSE,
                  wok |-> st.wok]
    IN  { LET line_height == loop_line_height(h, fonts[opt.font], opt.use_small)
              total_height == Len(lines) * line_height
              seen == [o |-> [h |-> h, over |-> acc.over], wok |-> acc.wok]
          IN  IF ~acc.all_lines_fit THEN reject_font(st, seen)
              ELSE IF too_tall(total_height, availH) THEN reject_font(st, seen)
              ELSE select_font(st, opt, line_height, total_height, seen)
          : h \in get_font_height,
            acc \in measure_lines({start}, lines, 1, opt.use_small, availW) }

\* mutant: the search loop without its break, so that the last fit wins
RECURSIVE search_fonts_no_break(_, _, _, _, _, _)
search_fonts_no_break(sts, i, fonts, width, height, lines) ==
    IF i > Len(font_options) THEN sts
    ELSE search_fonts_no_break(
            UNION {try_font(st, i, fonts, width, height, lines) : st \in sts},
            i + 1, fonts, width, height, lines)

\* the search loop from candidate i on; it stops at the first one taken (break)
RECURSIVE search_fonts(_, _, _, _, _, _)
search_fonts(sts, i, fonts, width, height, lines) ==
    IF i > Len(font_options) THEN sts
    ELSE search_fonts(
            UNION {IF st.best_font # NoFont THEN {st}
                   ELSE try_font(st, i, fonts, width, height, lines) : st \in sts},
            i + 1, fonts, width, height, lines)

\* mutant: min for max
shrink_line_height_min(best_line_height, available_height, num_lines) ==
    LET min_line_height == best_line_height - 2
        max_allowed_line_height == available_height \div num_lines
    IN  IF min_line_height <= max_allowed_line_height THEN min_line_height
        ELSE max_allowed_line_height

\* the line height of the fallback when the smallest font is still too tall
shrink_line_height(best_line_height, available_height, num_lines) ==
    LET min_line_height == best_line_height - 2
        max_allowed_line_height == available_height \div num_lines
    IN  Max(min_line_height, max_allowed_line_height)

\* mutant: centered in the available height instead of the display height
start_y_in_region(height, best_total_height) ==
    (available_text_height(height) - best_total_height) \div 2

\* the starting Y position that centers the text block
start_y(height, best_total_height) == (height - best_total_height) \div 2

\* what _calculate_text_layout hands back: a layout dict, or an exception
NoLayout ==
    [kind |-> "none", font |-> NoFont, line_height |-> 0, total_text_height |-> 0,
     start_y |-> 0, use_small_font |-> FALSE]

layout_dict(st, height) ==
    [kind |-> "return", font |-> st.best_font, line_height |-> st.best_line_height,
     total_text_height |-> st.best_total_height,
     start_y |-> start_y(height, st.best_total_height),
     use_small_font |-> st.best_use_small]

layout_error == [NoLayout EXCEPT !.kind = "raise"]

\* mutant: the fallback takes the small font, not the extra-small one
smallest_font_small(st, h, fonts, lines) ==
    LET best_line_height == fallback_line_height(h, fonts["extra_small_font"])
    IN  [st EXCEPT !.best_font = "small_font", !.best_use_small = TRUE,
                   !.best_line_height = best_line_height,
                   !.best_total_height = Len(lines) * best_line_height,
                   !.fb = <<h>>]

\* the smallest font with the line height that get_font_height result h gives
smallest_font(st, h, fonts, lines) ==
    LET best_line_height == fallback_line_height(h, fonts["extra_small_font"])
    IN  [st EXCEPT !.best_font = "extra_small_font", !.best_use_small = TRUE,
                   !.best_line_height = best_line_height,
                   !.best_total_height = Len(lines) * best_line_height,
                   !.fb = <<h>>]

\* mutant: the total height is not computed again after the line height shrank
use_smallest_stale_total(st, h, fonts, height, lines) ==
    LET num_lines == Len(lines)
        availH == available_text_height(height)
        fb == smallest_font(st, h, fonts, lines)
    IN  IF fb.best_total_height > availH
        THEN IF num_lines = 0
             THEN [fb EXCEPT !.best_font = NoFont]
             ELSE [fb EXCEPT !.best_line_height =
                        shrink_line_height(fb.best_line_height, availH, num_lines)]
        ELSE fb

\* mutant: no division, hence no exception, for an empty line list
use_smallest_guarded(st, h, fonts, height, lines) ==
    LET num_lines == Len(lines)
        availH == available_text_height(height)
        fb == smallest_font(st, h, fonts, lines)
    IN  IF fb.best_total_height > availH /\ num_lines # 0
        THEN LET shrunk == shrink_line_height(fb.best_line_height, availH, num_lines)
             IN  [fb EXCEPT !.best_line_height = shrunk,
                            !.best_total_height = shrunk * num_lines]
        ELSE fb

(* "if best_font is None": the smallest font is used, its height asked for  *)
(* again (result h, recorded in fb), and the line height reduced when the   *)
(* block is still too tall.  The division by num_lines raises for no lines. *)
use_smallest(st, h, fonts, height, lines) ==
    LET num_lines == Len(lines)
        availH == available_text_height(height)
        fb == smallest_font(st, h, fonts, lines)
    IN  IF fb.best_total_height > availH
        THEN IF num_lines = 0
             THEN [fb EXCEPT !.best_font = NoFont]      \* ZeroDivisionError
             ELSE LET shrunk == shrink_line_height(fb.best_line_height, availH, num_lines)
                  IN  [fb EXCEPT !.best_line_height = shrunk,
                                 !.best_total_height = shrunk * num_lines]
        ELSE fb

\* mutant: get_font_height of the fallback outside its try block
finish_layout_unguarded(st, fonts, height, lines) ==
    IF st.best_font # NoFont THEN {st}
    ELSE {IF h.ok THEN use_smallest(st, h, fonts, height, lines)
          ELSE [st EXCEPT !.fb = <<h>>] : h \in get_font_height}

\* the part of _calculate_text_layout after the search loop
finish_layout(st, fonts, height, lines) ==
    IF st.best_font # NoFont THEN {st}
    ELSE {use_smallest(st, h, fonts, height, lines) : h \in get_font_height}

measured(st) == [obs |-> st.obs, fb |-> st.fb, wok |-> st.wok]

(* _calculate_text_layout(width, height, lines) with the fonts of the       *)
(* display manager: every [ret, meas] the call can end with, over the       *)
(* results of its measurement calls.                                        *)
calculate_text_layout(fonts, width, height, lines) ==
    { [ret |-> IF st.best_font = NoFont THEN layout_error
               ELSE layout_dict(st, height),
       meas |-> measured(st)] :
      st \in UNION {finish_layout(s, fonts, height, lines) :
                    s \in search_fonts({layout_locals}, 1, fonts, width, height, lines)} }

(***************************************************************************)
(* Dates (datetime.date): proleptic Gregorian ordinals.                    *)
(***************************************************************************)
StartDate == [year |-> 2023, month |-> 12, day |-> 24]   \* the day of construction

IsLeap(y) == (y % 4 = 0) /\ ((y % 100 # 0) \/ (y % 400 = 0))

DaysInMonth(y, m) ==
    IF m = 2 THEN (IF IsLeap(y) THEN 29 ELSE 28)
    ELSE IF m \in {4, 6, 9, 11} THEN 30 ELSE 31

RECURSIVE DaysBeforeMonth(_, _)
DaysBeforeMonth(y, m) ==
    IF m = 1 THEN 0 ELSE DaysBeforeMonth(y, m - 1) + DaysInMonth(y, m - 1)

DaysBeforeYear(y) ==
    LET p == y - 1 IN 365 * p + (p \div 4) - (p \div 100) + (p \div 400)

toordinal(d) == DaysBeforeYear(d.year) + DaysBeforeMonth(d.year, d.month) + d.day

date(y, m, d) == [year |-> y, month |-> m, day |-> d]

\* today > christmas_this_year
date_after(a, b) == toordinal(a) > toordinal(b)

NextDay(d) ==
    IF d.day < DaysInMonth(d.year, d.month) THEN [d EXCEPT !.day = d.day + 1]
    ELSE IF d.month < 12 THEN date(d.year, d.month + 1, 1)
    ELSE date(d.year + 1, 1, 1)

(***************************************************************************)
(* _calculate_days_until_christmas: <<days_diff, is_christmas>>            *)
(***************************************************************************)
calculate_days_until_christmas(t) ==
    LET current_year == t.year
        christmas_this_year ==
            IF date_after(t, date(current_year, 12, 25))
            THEN date(current_year + 1, 12, 25)
            ELSE date(current_year, 12, 25)
        days_diff == toordinal(christmas_this_year) - toordinal(t)
    IN  <<days_diff, t.month = 12 /\ t.day = 25>>

(***************************************************************************)
(* update()                                                                *)
(***************************************************************************)
update ==
    LET r == calculate_days_until_christmas(today)
    IN  /\ days_until_christmas' = r[1]
        /\ is_christmas' = r[2]
        /\ last_calculated_date' =
              IF last_calculated_date # <<today>> THEN <<today>>
              ELSE last_calculated_date
        /\ op' = "update"
        /\ UNCHANGED <<today, last_displayed_message, dm, args, ret, meas, shown>>

\* a day passes (the host keeps running)
Tick ==
    /\ toordinal(today) - toordinal(StartDate) < MaxTicks
    /\ today' = NextDay(today)
    /\ op' = "tick"
    /\ UNCHANGED <<plugin, dm, args, ret, meas, shown>>

(***************************************************************************)
(* display(force_clear)                                                    *)
(***************************************************************************)
NoMessage == "None"                 \* last_displayed_message = None
ErrorText == "Countdown Error"

\* __init__ sets self.days_until_christmas, so hasattr() holds in display()
has_days_until_christmas == TRUE

\* "CHRISTMAS" measured with the smallest font, r the get_text_width result
use_xmas_of(r, width) ==
    IF r.ok THEN r.v > available_text_width(width) ELSE width < 64

display_message(days, christmas, use_xmas) ==
    IF christmas \/ days = 0 THEN "MERRY CHRISTMAS"
    ELSE IF use_xmas THEN ToString(days) \o " DAYS UNTIL XMAS"
    ELSE ToString(days) \o " DAYS UNTIL CHRISTMAS"

\* message.split(): the number has no blank in it, so there are four parts
split_message(days, use_xmas) ==
    <<ToString(days), "DAYS", "UNTIL", IF use_xmas THEN "XMAS" ELSE "CHRISTMAS">>

display_lines(days, christmas, use_xmas, message) ==
    IF christmas \/ days = 0 THEN <<"MERRY", "CHRISTMAS">>
    ELSE LET parts == split_message(days, use_xmas)
         IN  IF Len(parts) >= 4 THEN parts ELSE <<message>>

\* the display manager calls of a redraw, in order, and of the error screen
draw_ops(lines) ==
    <<"clear", "paste">> \o [i \in 1..Len(lines) |-> "draw_text"] \o <<"update_display">>

error_ops == <<"clear", "draw_text", "update_display">>

\* the calls that returned when call number fail_at raised (0: none raised)
completed(ops, fail_at) ==
    IF fail_at = 0 THEN ops ELSE SubSeq(ops, 1, fail_at - 1)

(* Whether the _calculate_text_layout call of display() raises: its only    *)
(* exception is the division by num_lines on the fallback path, for an     *)
(* empty line list that is "too tall" (RaisesExactly below states that     *)
(* calculate_text_layout agrees).  Of the layout returned display() uses   *)
(* only the positions of the lines, which are not part of shown.           *)
layout_raises(height, lines) ==
    Len(lines) = 0 /\ too_tall(0, available_text_height(height))

\* mutant: the force_clear argument ignored
needs_redraw_on_change(force_clear, last, message) == last # message

\* "if not force_clear and self.last_displayed_message == message: return"
needs_redraw(force_clear, last, message) == force_clear \/ last # message

\* mutant: the error screen outside a try block, its exception leaves display()
propagates_unguarded(failed, err_at) == failed /\ err_at > 0

(* Whether display() ends with an exception: the redraw is inside "try ...   *)
(* except Exception" and the error screen inside "try ... except: pass", so  *)
(* neither an exception of the redraw nor one of the error screen leaves it. *)
propagates(failed, err_at) == FALSE

NoShown == [message |-> NoMessage, force_clear |-> FALSE, measured |-> TRUE,
            ops |-> <<>>, err |-> <<>>, failed |-> FALSE, raised |-> FALSE,
            frame |-> NoMessage]

(* One display() call.  r: the result of measuring "CHRISTMAS"; fail_at:    *)
(* which display manager call of the redraw raises; err_at: which call of   *)
(* the error screen raises; lay: the outcome of _calculate_text_layout.     *)
(* shown records the message computed, whether the measurement of          *)
(* "CHRISTMAS" returned, the calls that returned (ops, err), whether the    *)
(* except branch ran, whether an exception left display(), and the last     *)
(* frame update_display pushed.                                             *)
display(force_clear) ==
    \E r \in get_text_width :
      LET upd == ~has_days_until_christmas
          days == IF upd THEN calculate_days_until_christmas(today)[1]
                  ELSE days_until_christmas
          christmas == IF upd THEN calculate_days_until_christmas(today)[2]
                       ELSE is_christmas
          width == dm.width
          height == dm.height
          use_xmas == use_xmas_of(r, width)
          message == display_message(days, christmas, use_xmas)
          lines == display_lines(days, christmas, use_xmas, message)
          ops == draw_ops(lines)
      IN  /\ op' = "display"
          /\ days_until_christmas' = days
          /\ is_christmas' = christmas
          /\ last_calculated_date' = IF upd THEN <<today>> ELSE last_calculated_date
          /\ UNCHANGED <<today, dm>>
          /\ \/ \* no change, skip redraw
                /\ ~needs_redraw(force_clear, last_displayed_message, message)
                /\ shown' = [NoShown EXCEPT !.message = message,
                                            !.force_clear = force_clear,
                                            !.measured = r.ok,
                                            !.frame = shown.frame]
                /\ UNCHANGED <<last_displayed_message, args, ret, meas>>
             \/ \* the redraw, with an exception at call fail_at when fail_at > 0
                /\ needs_redraw(force_clear, last_displayed_message, message)
                /\ UNCHANGED <<args, ret, meas>>
                /\ \E fail_at \in 0..Len(ops), err_at \in 0..Len(error_ops) :
                      LET reached == fail_at = 0 \/ fail_at > 2
                          raises == reached /\ layout_raises(height, lines)
                          failed == fail_at > 0 \/ raises
                          done == IF raises THEN <<"clear", "paste">>
                                  ELSE completed(ops, fail_at)
                      IN  /\ (~failed) => err_at = 0
                          /\ last_displayed_message' =
                                IF failed THEN last_displayed_message ELSE message
                          /\ shown' =
                                [message |-> message,
                                 force_clear |-> force_clear,
                                 measured |-> r.ok,
                                 ops |-> done,
                                 err |-> IF failed THEN completed(error_ops, err_at)
                                         ELSE <<>>,
                                 failed |-> failed,
                                 raised |-> propagates(failed, err_at),
                                 frame |-> IF ~failed THEN message
                                           ELSE IF err_at = 0 THEN ErrorText
                                           ELSE shown.frame]

(***************************************************************************)
(* The plugin in its host: construction, then update(), display() and the  *)
(* passing of days in any order.                                           *)
(***************************************************************************)
\* the fonts of a display manager are of one kind: with or without a size
FontConfigs == {[f \in FontNames |-> a] : a \in FontAttrs}

DisplayManagers == [width : Widths, height : Heights, fonts : FontConfigs]

NoArgs == [width |-> 0, height |-> 0, lines |-> <<>>]
NoMeas == [obs |-> <<>>, fb |-> <<>>, wok |-> FALSE]

\* __init__
Constructed ==
    /\ today = StartDate
    /\ days_until_christmas = 0
    /\ is_christmas = FALSE
    /\ last_calculated_date = <<>>
    /\ last_displayed_message = NoMessage
    /\ ret = NoLayout
    /\ meas = NoMeas
    /\ op = "init"
    /\ shown = NoShown

(* the host's panel: display() depends on the width alone, for the choice   *)
(* between "CHRISTMAS" and "XMAS"; on the narrowest panel a measurement can *)
(* choose either and the heuristic of a failed measurement chooses "XMAS"   *)
HostDisplays ==
    {d \in DisplayManagers :
        /\ \A w \in Widths : d.width <= w
        /\ d.height = 32
        /\ d.fonts["regular_font"] # <<>>}

Init ==
    /\ Constructed
    /\ dm \in HostDisplays
    /\ args = NoArgs

Next ==
    \/ Tick
    \/ update
    \/ \E force_clear \in BOOLEAN : display(force_clear)

Spec == Init /\ [][Next]_vars

(***************************************************************************)
(* The resolver on its own: _calculate_text_layout applied once to the     *)
(* display size and a line list drawn at the start.                        *)
(***************************************************************************)
DisplayLineLists ==
    {display_lines(1, FALSE, x, display_message(1, FALSE, x)) : x \in BOOLEAN}
        \cup {display_lines(0, TRUE, FALSE, "MERRY CHRISTMAS")}

LineLists == SeqsUpTo(LineWords, MaxLines) \cup DisplayLineLists

InitLayout ==
    /\ Constructed
    /\ dm \in DisplayManagers
    /\ args \in [width : {dm.width}, height : {dm.height}, lines : LineLists]

\* mutant: the resolver keeps the first line as the message displayed
CalcLayoutTracking ==
    \E lay \in calculate_text_layout(dm.fonts, args.width, args.height, args.lines) :
        /\ ret' = lay.ret
        /\ meas' = lay.meas
        /\ op' = "layout"
        /\ last_displayed_message' =
              IF args.lines # <<>> THEN args.lines[1] ELSE last_displayed_message
        /\ UNCHANGED <<today, days_until_christmas, is_christmas,
                       last_calculated_date, dm, args, shown>>

CalcLayout ==
    \E lay \in calculate_text_layout(dm.fonts, args.width, args.height, args.lines) :
        /\ ret' = lay.ret
        /\ meas' = lay.meas
        /\ op' = "layout"
        /\ UNCHANGED <<today, plugin, dm, args, shown>>

NextLayout == ret.kind = "none" /\ CalcLayout

SpecLayout == InitLayout /\ [][NextLayout]_vars

(***************************************************************************)
(* The resolver called again and again on the same arguments, with         *)
(* update() in between the calls (on the tallest display, and line lists   *)
(* of at most one line, which keeps the pairs of calls few).               *)
(***************************************************************************)
InitRepeat ==
    /\ InitLayout
    /\ Len(args.lines) <= 1
    /\ \A h \in Heights : h <= dm.height

NextRepeat ==
    \/ CalcLayout
    \/ update

SpecRepeat == InitRepeat /\ [][NextRepeat]_vars

(***************************************************************************)
(* Properties.  Called: a _calculate_text_layout call has ended.  The       *)
(* candidates tried are 1..Len(meas.obs); the fallback path was taken iff   *)
(* meas.fb holds the result of its get_font_height call.                   *)
(***************************************************************************)
Called == ret.kind # "none"
Returns == ret.kind = "return"
Fallback == meas.fb # <<>>
NumLines == Len(args.lines)
AvailW == available_text_width(args.width)
AvailH == available_text_height(args.height)
Tried == 1..Len(meas.obs)

\* the line height candidate i had, from the get_font_height result recorded
ObsLineHeight(i) ==
    loop_line_height(meas.obs[i].h, dm.fonts[font_options[i].font],
                     font_options[i].use_small)

\* candidate i passed both checks: no width seen was over, and the height fits
Fits(i) == ~meas.obs[i].over /\ NumLines * ObsLineHeight(i) <= AvailH

First(S) == CHOOSE i \in S : \A j \in S : i <= j

\* layout_raises, used by display(), says when calculate_text_layout raises
RaisesExactly ==
    Called => (ret.kind = "raise" <=> layout_raises(args.height, args.lines))

\* C1: when a candidate tried passes both the width and the height check, the
\* call returns the first such candidate in the order regular, small,
\* extra-small, by the search loop and not by the fallback.
C1_BestFit ==
    (Called /\ \E i \in Tried : Fits(i)) =>
        LET k == First({i \in Tried : Fits(i)})
        IN  /\ Returns
            /\ ~Fallback
            /\ ret.font = font_options[k].font
            /\ ret.use_small_font = font_options[k].use_small
            /\ ret.line_height = ObsLineHeight(k)

\* C1 witness: the regular font was rejected and a smaller one that fits taken
C1_Witness ==
    /\ Called /\ ~Fallback /\ Len(meas.obs) >= 2
    /\ Fits(Len(meas.obs))
    /\ ret.font = font_options[Len(meas.obs)].font

\* C2: for a line list that is not empty, when no candidate passed both checks
\* the call still returns a layout, with line_height >= 1 and
\* total_text_height = line_height * number of lines.
C2_FallbackGuarantee ==
    (Called /\ NumLines >= 1 /\ ~(\E i \in Tried : Fits(i))) =>
        /\ Returns
        /\ Fallback
        /\ ret.line_height >= 1
        /\ ret.total_text_height = ret.line_height * NumLines

\* C2 witness: region height 5 (display height 9), 4 lines, line height 8
C2_Witness ==
    /\ Called /\ Fallback /\ Returns
    /\ AvailH = 5 /\ NumLines = 4
    /\ fallback_line_height(meas.fb[1], dm.fonts["extra_small_font"]) = 8
    /\ ret.line_height < 8

\* C3: for a line list that is not empty the call returns normally, whichever
\* get_font_height and get_text_width calls raise.
C3_NeverRaises == (Called /\ NumLines >= 1) => Returns

\* C3 witness: a call in which every get_text_width call and a get_font_height
\* call in the loop and the one of the fallback raised, and which returned
C3_Witness ==
    /\ Called /\ NumLines >= 1 /\ Returns
    /\ ~meas.wok
    /\ \E i \in Tried : ~meas.obs[i].h.ok
    /\ Fallback /\ ~meas.fb[1].ok

\* C4 as claimed: on the non-fallback path (with lines to place) start_y is
\* (available height - total height) // 2.
C4_Claimed ==
    (Called /\ Returns /\ ~Fallback /\ NumLines >= 1) =>
        ret.start_y = (AvailH - ret.total_text_height) \div 2

\* C4 amended: on the non-fallback path start_y centers the block in the
\* display height, which is two pixels below the center of the available height.
C4_Centering ==
    (Called /\ Returns /\ ~Fallback) =>
        /\ 2 * ret.start_y <= args.height - ret.total_text_height
        /\ args.height - ret.total_text_height <= 2 * ret.start_y + 1
        /\ ret.start_y = ((AvailH - ret.total_text_height) \div 2) + 2

\* C4 witness: a candidate taken by the search loop with lines to center
C4_Witness ==
    /\ Called /\ Returns /\ ~Fallback
    /\ NumLines >= 2 /\ ret.total_text_height > 0
    /\ ret.start_y > 2

\* C5 as claimed: on the non-fallback path the block (of at least one line)
\* lies inside the available height: start_y >= 0 and
\* start_y + total height <= available height.
C5_Claimed ==
    (Called /\ Returns /\ ~Fallback /\ NumLines >= 1) =>
        /\ ret.start_y >= 0
        /\ ret.start_y + ret.total_text_height <= AvailH

\* C5 amended: on the non-fallback path the block lies inside the display,
\* between its two-pixel margins: start_y >= 2 and
\* start_y + total height <= display height - 2.
C5_InsideDisplay ==
    (Called /\ Returns /\ ~Fallback) =>
        /\ ret.start_y >= 2
        /\ ret.start_y + ret.total_text_height <= args.height - 2

\* C5 witness: a block taken by the search loop that ends past the available
\* height but inside the display
C5_Witness ==
    /\ Called /\ Returns /\ ~Fallback
    /\ ret.total_text_height > 0
    /\ ret.start_y + ret.total_text_height > AvailH
    /\ ret.start_y + ret.total_text_height <= args.height - 2

\* the scenario of C6: available height 10, the four lines of "1 DAYS UNTIL
\* XMAS", the smallest font with line height 8
C6_Scenario ==
    /\ Called /\ Fallback
    /\ AvailH = 10
    /\ args.lines = <<"1", "DAYS", "UNTIL", "XMAS">>
    /\ fallback_line_height(meas.fb[1], dm.fonts["extra_small_font"]) = 8

\* C6 as claimed: in the scenario line_height is 2, the total height 8 and
\* start_y 1.
C6_Claimed ==
    C6_Scenario =>
        ret.line_height = 2 /\ ret.total_text_height = 8 /\ ret.start_y = 1

\* C6 amended: in the scenario line_height is max(8 - 2, 10 // 4) = 6, the
\* total height 24 and start_y (14 - 24) // 2 = -5.
C6_FallbackScenario ==
    C6_Scenario =>
        /\ Returns
        /\ ret.font = "extra_small_font" /\ ret.use_small_font
        /\ ret.line_height = 6 /\ ret.total_text_height = 24 /\ ret.start_y = -5

\* C6 witness: the scenario, with the result of the code
C6_Witness == C6_Scenario /\ ret.line_height = 6

\* the estimate of C7: characters times 8 (regular) or 6 (small, extra-small)
EstimateFits(i) ==
    \A j \in 1..NumLines :
        Len(args.lines[j]) * (IF font_options[i].use_small THEN 6 ELSE 8) <= AvailW

EstimateChoice ==
    {i \in Tried : EstimateFits(i) /\ NumLines * ObsLineHeight(i) <= AvailH}

\* C7: when every get_text_width call raised, the call returns and the font is
\* the first candidate whose estimates fit the width and whose height fits,
\* the smallest font by the fallback when there is none.
C7_EstimateSubstitution ==
    (Called /\ NumLines >= 1 /\ ~meas.wok) =>
        /\ Returns
        /\ IF EstimateChoice # {}
           THEN ~Fallback /\ ret.font = font_options[First(EstimateChoice)].font
           ELSE Fallback /\ ret.font = "extra_small_font"

\* C7 witness: the estimate rejects the regular font and accepts the small one
C7_Witness ==
    /\ Called /\ NumLines >= 1 /\ ~meas.wok
    /\ ~EstimateFits(1) /\ EstimateFits(2)
    /\ ret.font = "small_font"

\* C8 as claimed: a call with an empty line list raises.
C8_Claimed == (Called /\ NumLines = 0) => ret.kind = "raise"

\* C8 amended: a call with an empty line list raises only when the display
\* height is below 4; otherwise it returns the regular font with a total
\* height of 0.
C8_EmptyLines ==
    (Called /\ NumLines = 0) =>
        IF args.height < 4 THEN ret.kind = "raise"
        ELSE /\ Returns
             /\ ret.font = "regular_font"
             /\ ret.total_text_height = 0
             /\ ret.start_y = args.height \div 2

\* C8 witnesses: both outcomes of a call with an empty line list
C8_Witness == Called /\ NumLines = 0 /\ Returns /\ ret.total_text_height = 0

C8_WitnessRaise == Called /\ NumLines = 0 /\ ret.kind = "raise"

C10_Claimed ==
    (op = "display" /\ last_calculated_date = <<today>>) =>
        (shown.message = "MERRY CHRISTMAS" <=> (today.month = 12 /\ today.day >= 25))

(***************************************************************************)
(* Properties of display().  A step with op' = "display" is one display()  *)
(* call; the unprimed variables are the plugin before the call, shown'     *)
(* what the call did.                                                      *)
(***************************************************************************)
\* the calls of a redraw that ran to its end: clear, paste, one draw_text for
\* each line of the message (two or four), update_display
FullRedraws == {draw_ops(lines) : lines \in DisplayLineLists}

\* no drawing call was made: neither by a redraw nor by the error screen
NoDrawing(s) == s.ops = <<>> /\ s.err = <<>> /\ ~s.failed

\* C11: in any sequence of update() and display() calls (and passing days), a
\* display() call starts the redraw if and only if force_clear is True or the
\* message differs from last_displayed_message, and the redraw is clear,
\* paste, draw_text per line, update_display unless one of these calls
\* raises; otherwise the call makes no drawing call at all; and
\* last_displayed_message changes only to the message, and only when
\* update_display() has returned.
C11_RedrawSuppression ==
    [][op' = "display" =>
          LET redraw == shown'.force_clear \/ shown'.message # last_displayed_message
          IN  /\ redraw => /\ ~NoDrawing(shown')
                           /\ ~shown'.failed => shown'.ops \in FullRedraws
              /\ ~redraw => /\ NoDrawing(shown')
                            /\ last_displayed_message' = last_displayed_message
              /\ last_displayed_message' # last_displayed_message =>
                    /\ last_displayed_message' = shown'.message
                    /\ shown'.ops \in FullRedraws
              /\ shown'.ops \in FullRedraws =>
                    last_displayed_message' = shown'.message]_vars

\* C11 witness: a display() call without force_clear that found its message
\* already displayed and returned without a drawing call
C11_Witness ==
    /\ op = "display" /\ ~shown.force_clear
    /\ NoDrawing(shown)
    /\ shown.message = last_displayed_message
    /\ shown.frame = shown.message

(***************************************************************************)
(* Properties of the fallback of _calculate_text_layout.                   *)
(***************************************************************************)
\* the line height of the smallest font on the fallback path, spacing included
FallbackHeight == fallback_line_height(meas.fb[1], dm.fonts["extra_small_font"])

\* C12: when no candidate passed both checks and the call returns, the font
\* returned is the extra-small one with use_small_font true, and with h its
\* line height (spacing 2 included) and n the number of lines, line_height is
\* h when n * h fits the available height and max(h - 2, available height
\* // n) otherwise; it lies between h - 2 and h.
C12_FallbackResult ==
    (Called /\ Returns /\ ~(\E i \in Tried : Fits(i))) =>
        /\ Fallback
        /\ ret.font = font_options[Len(font_options)].font
        /\ ret.font = "extra_small_font"
        /\ ret.use_small_font
        /\ ret.line_height =
              IF NumLines * FallbackHeight <= AvailH THEN FallbackHeight
              ELSE Max(FallbackHeight - 2, AvailH \div NumLines)
        /\ FallbackHeight - 2 <= ret.line_height
        /\ ret.line_height <= FallbackHeight

\* C12 witness: a fallback whose block was too tall and whose line height is
\* the available height divided by the number of lines, above h - 2
C12_Witness ==
    /\ Called /\ Returns /\ Fallback
    /\ NumLines * FallbackHeight > AvailH
    /\ ret.line_height = AvailH \div NumLines
    /\ FallbackHeight - 2 < ret.line_height
    /\ ret.line_height < FallbackHeight

\* C12, second witness: a fallback whose block fits, line_height is h
C12_WitnessFits ==
    /\ Called /\ Returns /\ Fallback
    /\ NumLines >= 1
    /\ NumLines * FallbackHeight <= AvailH
    /\ ret.line_height = FallbackHeight

(***************************************************************************)
(* Properties of the countdown.                                            *)
(***************************************************************************)
\* C13 as claimed: the pair (d, c) that update() stores from
\* _calculate_days_until_christmas is, before December 25, the positive
\* number of days to December 25 and False; on December 25, (0, True); after
\* December 25, a negative d and False.
C13_Claimed ==
    op = "update" =>
        LET d == days_until_christmas
            c == is_christmas
            christmas == date(today.year, 12, 25)
        IN  IF date_after(christmas, today)
            THEN d > 0 /\ d = toordinal(christmas) - toordinal(today) /\ ~c
            ELSE IF today = christmas THEN d = 0 /\ c
            ELSE d < 0 /\ ~c

\* the messages display() can compute on date t once update() has run on t
MessagesOn(t) ==
    LET r == calculate_days_until_christmas(t)
    IN  {display_message(r[1], r[2], use_xmas) : use_xmas \in BOOLEAN}

\* C14 as claimed: a display() call on a plugin on which update() never ran
\* (last_calculated_date is None) runs update() first, so that the countdown
\* is that of the current date and the message is computed from it.
C14_Claimed ==
    [][(op' = "display" /\ last_calculated_date = <<>>) =>
          /\ last_calculated_date' = <<today>>
          /\ days_until_christmas' = calculate_days_until_christmas(today)[1]
          /\ is_christmas' = calculate_days_until_christmas(today)[2]
          /\ shown'.message \in MessagesOn(today)]_vars

\* C15 as claimed: whenever a display() call without force_clear returned
\* through the early return (no drawing call made), the last frame pushed by
\* update_display() is the message of that call, never the error screen.
C15_Claimed ==
    (op = "display" /\ ~shown.force_clear /\ NoDrawing(shown)) =>
        /\ shown.frame = shown.message
        /\ shown.frame # ErrorText

C16_WitnessMeasurement ==
    /\ op = "display" /\ ~shown.measured /\ ~shown.failed
    /\ shown.ops \in FullRedraws
    /\ last_displayed_message = shown.message

====
